---- MODULE Spec2Model ----
(***************************************************************************)
(* ProcessManager (src/src/ProcessManager.ts) and OpenCodeClient           *)
(* (src/src/WorkspaceContext.ts) as state machines.                        *)
(*                                                                         *)
(* Every async method is cut at its suspension points (await of a health   *)
(* probe, a sleep, a taskkill, a wait for the child's exit, an HTTP        *)
(* request).  The code between two suspension points runs to completion on *)
(* the single JavaScript thread, so it is one atomic action.  Calls of     *)
(* start() and stop() live in call slots and may overlap.                  *)
(***************************************************************************)
EXTENDS Integers, Sequences, FiniteSets, TLC

\* ---------------------------------------------------------------- bounds
MaxCalls == 2        \* start()/stop() calls in progress at once

Calls == 1..MaxCalls
\* The children of one behaviour: the child of one start() and the child of
\* a later one, so that an old child's late events meet a new child.
Children == {1, 2}
Null == 0

\* lastError values (the message texts of ProcessManager.ts)
NoError == "null"
ErrNoDir == "Project directory (vault) not configured"
ErrEnoent == "Executable not found at opencodePath"
ErrFailed == "Failed to start"
ErrExitCode == "Process exited unexpectedly (exit code)"
ErrExitedEarly == "Process exited before server became ready"
ErrTimeout == "Server failed to start within timeout"

VARIABLES
    state,            \* ProcessManager.state
    process,          \* ProcessManager.process: Null or the child it refers to
    lastError,        \* ProcessManager.lastError
    earlyExitCode,    \* ProcessManager.earlyExitCode: Null or the nonzero code
    child,            \* the operating system's view of each spawned child
    call,             \* the start()/stop() calls and where each is suspended
    platform,         \* process.platform: "posix" or "win32"
    passed,           \* history: start() calls that got past the guard of
                      \* line 47, counted 0, 1, many
    settings,         \* ProcessManager.settings: hostname and port
    projectDirectory, \* ProcessManager.projectDirectory, "" when none
    observed,         \* whether the notifications are recorded
    notified          \* history: the setState calls of the last step, each
                      \* with the state it replaced and lastError as the
                      \* observers found it; <<>> when not recorded

pmVars == <<state, process, lastError, earlyExitCode, child, call, platform,
            passed, settings, projectDirectory, observed, notified>>

VARIABLES
    trackedSessionId, \* OpenCodeClient.trackedSessionId
    lastPart,         \* OpenCodeClient.lastPart: JNull or a part
    upd,              \* the updateContext calls and where each is suspended
    remote,           \* the server's parts: what each id refers to
    prev,             \* history: the updateContext call that returned last
    resets            \* history: "none", or tracking was reset from outside
                      \* "between" calls, or "during" an updateContext call

ocVars == <<trackedSessionId, lastPart, upd, remote, prev, resets>>

VARIABLES
    uiBaseUrl,        \* OpenCodeClient.uiBaseUrl, a sequence of characters
    iframeUrl,        \* the session URL handed out last and the id it is for
    resolved,         \* the id resolveSessionId found in it, once asked
    unwrapCall,       \* the response unwrap was called with last, and the
                      \* shape and payload it was built from
    unwrapped         \* what unwrap returned for it

urlVars == <<uiBaseUrl, iframeUrl, resolved, unwrapCall, unwrapped>>

VARIABLES
    stateChangeCallbacks, \* OpenCodePlugin.stateChangeCallbacks: the observers
    currentState,         \* OpenCodeView.currentState of each view
    disposes,             \* the disposers each observer's callback calls
                          \* before it returns: a set of observers
    delivered             \* history: the callbacks run in the last step, in
                          \* order, each with the state it was handed

obsVars == <<stateChangeCallbacks, currentState, disposes, delivered>>

VARIABLES
    injectWorkspaceContext, \* settings.injectWorkspaceContext
    listening,              \* contextEventRefs is not empty
    contextRefreshTimer,    \* OpenCodePlugin.contextRefreshTimer: Null or an id
    timers,                 \* the window's pending timers of the plugin
    timerSeq,               \* the ids setTimeout has handed out so far
    pushing,                \* the updateContext calls in flight, per origin
    creating,               \* ensureSessionUrl awaits createSession
    burst,                  \* history: schedules since a timer last fired,
                            \* counted 0, 1, many
    fired                   \* history: timers fired since the last schedule

plVars == <<injectWorkspaceContext, listening, contextRefreshTimer, timers,
            timerSeq, pushing, creating, burst, fired>>

vars == <<pmVars, ocVars, urlVars, obsVars, plVars>>

\* ------------------------------------------------------------ the records
\* A call slot.  op, pc, proc are the call's own position and locals; the
\* other fields are history of the call, read by the properties only.
IdleCall ==
    [op |-> "none", pc |-> "idle", proc |-> Null,
     result |-> "none", entryBusy |-> FALSE, entryProc |-> Null,
     guarded |-> FALSE,
     entryDir |-> "", probed |-> FALSE, probeOk |-> FALSE,
     attached |-> FALSE, spawned |-> Null, errSeen |-> "none",
     timedOut |-> FALSE, calledStop |-> FALSE, how |-> "none",
     owned |-> FALSE, sigOrder |-> "none", signals |-> <<>>,
     overlap |-> FALSE, restart |-> Null,
     retState |-> "none", retProc |-> Null,
     retError |-> NoError]

\* A child: st is "none" (not spawned), "alive", "dead" (the process is gone,
\* its exit event not yet delivered), "exited" (exit event delivered),
\* "failed" (spawn failed, pid undefined, error event pending), "errored".
NoChild == [st |-> "none"]

\* The record of a call that has returned is kept for one step, so that the
\* properties can read it, and dropped by the next action.
Live == [i \in Calls |-> IF call[i].pc = "done" THEN IdleCall ELSE call[i]]

\* The mutable world an atomic step works on; emitted collects the
\* onStateChange notifications of the step, in order.
\* The settings getUrl reads: the default, another hostname, another port.
Settings ==
    {[hostname |-> "127.0.0.1", port |-> 14096],
     [hostname |-> "localhost", port |-> 14096],
     [hostname |-> "127.0.0.1", port |-> 8080]}
Directories == {"", "vault"}

\* btoa on the directories of the model: "" encodes to "", "vault" to its
\* base64 text.
btoa(text) == IF text = "" THEN "" ELSE "dmF1bHQ="

\* Mutant of getUrl: the URL is handed out only while the server runs.
getUrlWhenRunning ==
    IF state = "running"
    THEN "http://" \o settings.hostname \o ":" \o ToString(settings.port)
                   \o "/" \o btoa(projectDirectory)
    ELSE ""

\* getUrl: lines 41-44.
getUrl ==
    "http://" \o settings.hostname \o ":" \o ToString(settings.port)
              \o "/" \o btoa(projectDirectory)

World ==
    [state |-> state, process |-> process, lastError |-> lastError,
     earlyExitCode |-> earlyExitCode, emitted |-> <<>>, child |-> child,
     call |-> Live, passed |-> passed]

Min(S) == CHOOSE x \in S : \A y \in S : x <= y

InFlight(c) == c.pc \notin {"idle", "done"}
\* The children not spawned yet; a behaviour spawns no more than these.
FreeChildren == {k \in Children : child[k].st = "none"}

\* ------------------------------------------------- setState / setError
setState(w, s) ==
    [w EXCEPT !.state = s,
              !.emitted = Append(@, [from |-> w.state, to |-> s,
                                     lastError |-> w.lastError])]

setError(w, message) == setState([w EXCEPT !.lastError = message], "error")

\* A call returns (res = "true", "false", "void") or rejects (res = "threw").
Return(w, i, res) ==
    [w EXCEPT !.call[i].pc = "done", !.call[i].result = res,
              !.call[i].retState = w.state, !.call[i].retProc = w.process,
              !.call[i].retError = w.lastError]

\* ------------------------------------------------------------------ stop
\* The first signal of a stop() leaves.  sigOrder remembers whether the
\* manager was by then Stopped, its observers told so in the same synchronous
\* run, and the handle cleared ("afterStop"), or not ("beforeStop").
\* signals remembers what killProcessTree sent: on win32 the command of line
\* 197 whatever the signal asked for, elsewhere the signal to the group.
Taskkill == "taskkill /T /F"
sendSignal(w, i, sig) ==
    LET w1 == [w EXCEPT !.call[i].signals =
                           Append(@, IF platform = "win32" THEN Taskkill ELSE sig)]
    IN IF sig = "SIGTERM"
       THEN [w1 EXCEPT !.call[i].sigOrder =
                         IF /\ w.state = "stopped"
                            /\ w.process = Null
                            /\ \E k \in 1..Len(w.emitted) : w.emitted[k].to = "stopped"
                         THEN "afterStop"
                         ELSE "beforeStop"]
       ELSE w1

\* start() after `await this.stop()`: the most specific reason available.
postStop(w, i) ==
    IF w.earlyExitCode # Null
    THEN Return(setError(w, ErrExitCode), i, "false")
    ELSE IF w.process = Null
         THEN Return(setError(w, ErrExitedEarly), i, "false")
         ELSE Return(setError(w, ErrTimeout), i, "false")

\* stop() returns: to its caller, or into the start() that awaited it.
stopReturn(w, i, how) ==
    LET w1 == [w EXCEPT !.call[i].how = how]
    IN IF w.call[i].op = "start" THEN postStop(w1, i) ELSE Return(w1, i, "void")

\* stop() rejects; a start() awaiting it rejects with it.
stopThrow(w, i) == Return([w EXCEPT !.call[i].how = "threw"], i, "threw")

waitForProcessExit(w, i, pcWait, how) ==
    IF w.child[w.call[i].proc].st = "exited"
    THEN stopReturn(w, i, how)
    ELSE [w EXCEPT !.call[i].pc = pcWait]

\* win32: taskkill is started and awaited.  posix: process.kill(-pid, signal)
\* is synchronous and throws when it fails (fails = TRUE).
killProcessTree(w, i, sig, fails, pcKill, pcWait, how) ==
    IF platform = "win32"
    THEN [sendSignal(w, i, sig) EXCEPT !.call[i].pc = pcKill]
    ELSE IF fails
         THEN stopThrow(w, i)
         ELSE waitForProcessExit(sendSignal(w, i, sig), i, pcWait, how)

\* process.kill(-pid) can fail once the child's process group is gone.
KillMayFail(w, c) == c # Null /\ w.child[c].st = "dead"

\* Mutant of stopNoProcess: returns without setState("stopped").
stopNoProcessKeepsState(w, i) == stopReturn(w, i, "nochild")

\* stop() with no handle: lines 149-152.
stopNoProcess(w, i) == stopReturn(setState(w, "stopped"), i, "nochild")

stop(w, i, fails) ==
    IF w.process = Null
    THEN stopNoProcess(w, i)
    ELSE IF w.child[w.process].st = "failed"
         THEN stopReturn([setState(w, "stopped") EXCEPT !.process = Null], i, "nopid")
         ELSE LET w1 == setState(w, "stopped")
                  w2 == [w1 EXCEPT !.process = Null,
                                   !.call[i].proc = w.process,
                                   !.call[i].owned = TRUE]
              IN killProcessTree(w2, i, "SIGTERM", fails, "kill1", "wait1", "graceful")

\* ----------------------------------------------------------------- start
sendProbe(w, i, pc) == [w EXCEPT !.call[i].pc = pc, !.call[i].probed = TRUE]

\* Mutant of startEnter: the guard of line 47 is missing.
startEnterNoGuard(w, i, directory) ==
    LET w1 == setState([w EXCEPT !.passed = IF @ = 0 THEN 1 ELSE 2],
                       "starting")
        w2 == [w1 EXCEPT !.lastError = NoError, !.earlyExitCode = Null,
                         !.call[i].entryDir = directory]
    IN IF directory = ""
       THEN Return(setError(w2, ErrNoDir), i, "false")
       ELSE sendProbe(w2, i, "probe1")

\* Mutant of startEnter: the directory test of line 55 is missing.
startEnterNoDirectoryTest(w, i, directory) ==
    IF w.state \in {"running", "starting"}
    THEN Return([w EXCEPT !.call[i].guarded = TRUE], i, "true")
    ELSE LET w1 == setState([w EXCEPT !.passed = IF @ = 0 THEN 1 ELSE 2],
                            "starting")
             w2 == [w1 EXCEPT !.lastError = NoError, !.earlyExitCode = Null,
                              !.call[i].entryDir = directory]
         IN sendProbe(w2, i, "probe1")

\* Mutant of startEnter: lines 52-53 are missing, the error of the previous
\* attempt and its exit code are kept.
startEnterKeepsError(w, i, directory) ==
    IF w.state \in {"running", "starting"}
    THEN Return([w EXCEPT !.call[i].guarded = TRUE], i, "true")
    ELSE LET w1 == setState([w EXCEPT !.passed = IF @ = 0 THEN 1 ELSE 2],
                            "starting")
             w3 == [w1 EXCEPT !.call[i].entryDir = directory]
         IN IF directory = ""
            THEN Return(setError(w3, ErrNoDir), i, "false")
            ELSE sendProbe(w3, i, "probe1")

\* this.projectDirectory is read here and nowhere else in start() and
\* stop(): directory is the value the call finds ("" when none is
\* configured).
startEnter(w, i, directory) ==
    IF w.state \in {"running", "starting"}
    THEN Return([w EXCEPT !.call[i].guarded = TRUE], i, "true")
    ELSE LET w1 == setState([w EXCEPT !.passed = IF @ = 0 THEN 1 ELSE 2],
                            "starting")
             w2 == [w1 EXCEPT !.lastError = NoError, !.earlyExitCode = Null]
             w3 == [w2 EXCEPT !.call[i].entryDir = directory]
         IN IF directory = ""
            THEN Return(setError(w3, ErrNoDir), i, "false")
            ELSE sendProbe(w3, i, "probe1")

\* waitForServerOrExit gave up (ready = FALSE): lines 134-138.
afterWait(w, i, fails) ==
    IF w.state = "error"
    THEN Return(w, i, "false")
    ELSE stop([w EXCEPT !.call[i].calledStop = TRUE], i, fails)

\* The head of the polling loop: the time test, the handle test, the probe.
pollLoop(w, i, elapsed, fails) ==
    IF elapsed
    THEN afterWait([w EXCEPT !.call[i].timedOut = TRUE], i, fails)
    ELSE IF w.process = Null
         THEN afterWait(w, i, fails)
         ELSE sendProbe(w, i, "poll")

\* spawn(...) and the first, synchronous, part of waitForServerOrExit.
spawn(w, i, c, st) ==
    LET w1 == [w EXCEPT !.process = c, !.child[c].st = st,
                        !.call[i].spawned = c]
    IN sendProbe(w1, i, "poll")

setRunning(w, i) == Return(setState(w, "running"), i, "true")

\* Mutant of attach: a child is spawned although the server answered.
attachAndSpawn(w, i) ==
    LET c == Min({k \in Children : w.child[k].st = "none"} \cup {2})
    IN setRunning([w EXCEPT !.call[i].probeOk = TRUE,
                            !.call[i].attached = TRUE,
                            !.call[i].spawned = c,
                            !.process = c, !.child[c].st = "alive"], i)

\* The first probe answered true: lines 59-63, no spawn.
attach(w, i) ==
    setRunning([w EXCEPT !.call[i].probeOk = TRUE,
                         !.call[i].attached = TRUE], i)

\* ------------------------------------------------------ child's handlers
\* code is the exit code: "zero", "nonzero", or "null" (ended by a signal).
\* Mutant of exitHandler: an exit while Running is reported as an error.
exitHandlerSetsError(w, c, code) ==
    LET w1 == [w EXCEPT !.process = Null, !.child[c].st = "exited"]
        w2 == IF w1.state = "starting" /\ code = "nonzero"
              THEN [w1 EXCEPT !.earlyExitCode = 1]
              ELSE w1
    IN IF w2.state = "running" THEN setError(w2, ErrExitedEarly) ELSE w2

\* The "exit" handler: lines 104-115.
exitHandler(w, c, code) ==
    LET w1 == [w EXCEPT !.process = Null, !.child[c].st = "exited"]
        w2 == IF w1.state = "starting" /\ code = "nonzero"
              THEN [w1 EXCEPT !.earlyExitCode = 1]
              ELSE w1
    IN IF w2.state = "running" THEN setState(w2, "stopped") ELSE w2

errorHandler(w, c, code) ==
    LET w1 == [w EXCEPT !.process = Null, !.child[c].st = "errored"]
    IN setError(w1, IF code = "ENOENT" THEN ErrEnoent ELSE ErrFailed)

\* History: the start() that spawned the child and still waits sees the error.
noteError(w, c, code) ==
    [w EXCEPT !.call = [i \in Calls |->
        IF InFlight(w.call[i]) /\ w.call[i].spawned = c
        THEN [w.call[i] EXCEPT !.errSeen = code]
        ELSE w.call[i]]]

Waits(w, i, c) == w.call[i].pc \in {"wait1", "wait2"} /\ w.call[i].proc = c

\* The exit event resolves every waitForProcessExit on the child, and the
\* code after each await runs before any other event is handled.
RECURSIVE resumeWaiters(_, _, _)
resumeWaiters(w, c, S) ==
    IF S = {}
    THEN w
    ELSE LET i == Min(S)
             w1 == IF Waits(w, i, c)
                   THEN stopReturn(w, i, IF w.call[i].pc = "wait1"
                                         THEN "graceful" ELSE "forced")
                   ELSE w
         IN resumeWaiters(w1, c, S \ {i})

\* --------------------------------------------------------------- actions
\* The slots are a bag of calls: no step depends on which slot a call is in
\* (a child is waited for by one stop() at most).  They are kept ordered by
\* position, so that two orders of the same calls are one state.
PcOrder == <<"wait2", "kill2", "wait1", "kill1", "sleep", "poll", "probe1",
             "entered", "done", "idle">>
Rank(c) == 2 * (CHOOSE k \in 1..Len(PcOrder) : PcOrder[k] = c.pc)
             + (IF c.op = "start" THEN 1 ELSE 0)
Ordered(cs) ==
    LET p == CHOOSE q \in Permutations(Calls) :
                \A a, b \in Calls : a < b => Rank(cs[q[a]]) <= Rank(cs[q[b]])
    IN [i \in Calls |-> cs[p[i]]]

\* ---------------------------------------------------------- session URLs
\* A string is the sequence of its characters.
MaxIdLen == 2
IdChars == {"a", "/", "?", "#"}
Ids == UNION {[1..n -> IdChars] : n \in 1..MaxIdLen}
HttpH == <<"h", "t", "t", "p", ":", "/", "/", "h">>
SessionPath == <<"/", "s", "e", "s", "s", "i", "o", "n", "/">>
\* The base URLs the client is given: with and without trailing slashes,
\* and one whose own path has a session segment.
BaseUrls ==
    {HttpH, HttpH \o <<"/">>, HttpH \o <<"/", "/">>,
     HttpH \o SessionPath \o <<"b">>}

\* normalizeBaseUrl: baseUrl.replace(/\/+$/, ""), lines 304-306.
RECURSIVE normalizeBaseUrl(_)
normalizeBaseUrl(baseUrl) ==
    IF Len(baseUrl) > 0 /\ baseUrl[Len(baseUrl)] = "/"
    THEN normalizeBaseUrl(SubSeq(baseUrl, 1, Len(baseUrl) - 1))
    ELSE baseUrl

\* getSessionUrl: lines 160-162.
getSessionUrl(sessionId) == uiBaseUrl \o SessionPath \o sessionId

\* The regular expression /\/session\/([^/?#]+)/ of line 165: a match starts
\* at p when "/session/" is there and a character other than / ? # follows;
\* match() takes the leftmost start and the group runs as far as it can.
Stops == {"/", "?", "#"}
MatchStarts(url) ==
    {p \in 1..Len(url) :
        /\ p + Len(SessionPath) <= Len(url)
        /\ SubSeq(url, p, p + Len(SessionPath) - 1) = SessionPath
        /\ url[p + Len(SessionPath)] \notin Stops}
GroupEnd(url, from) ==
    CHOOSE q \in from..Len(url) :
        /\ \A r \in from..q : url[r] \notin Stops
        /\ q = Len(url) \/ url[q + 1] \in Stops

\* resolveSessionId: lines 164-167.  The group is never empty, so the empty
\* sequence stands for null.
NoId == <<>>
resolveSessionId(url) ==
    IF MatchStarts(url) = {}
    THEN NoId
    ELSE LET from == Min(MatchStarts(url)) + Len(SessionPath)
         IN SubSeq(url, from, GroupEnd(url, from))

NoUrl == [id |-> NoId, url |-> <<>>]
NotResolved == [asked |-> FALSE, of |-> NoId, id |-> NoId]

\* ----------------------------------------------------- pushes in flight
MaxTimers == 3
MaxPushes == 2
Origins == {"timer", "running", "session", "view"}
otherVars == <<pmVars, ocVars, urlVars, obsVars>>

InFlightPushes == pushing["timer"] + pushing["running"] + pushing["session"]
                     + pushing["view"]

\* Mutant of PushGuard: the test of the process state is missing.
PushGuardIgnoresState(s, url) ==
    /\ injectWorkspaceContext
    /\ url # NoUrl
    /\ resolveSessionId(url.url) # NoId

\* The tests of updateOpenCodeContext, lines 364-381, with the process state
\* s and the cached or displayed URL url: the setting, the state, the URL,
\* the session id.
PushGuard(s, url) ==
    /\ injectWorkspaceContext
    /\ s = "running"
    /\ url # NoUrl
    /\ resolveSessionId(url.url) # NoId

\* The observer of onload, part_002 lines 86-90, and handleServerRunning,
\* lines 356-361, inside setState("running"): a push starts when the active
\* leaf is an OpenCode view and the tests pass.  The values pushing can have
\* afterwards.
handleServerRunning(emitted) ==
    IF /\ \E k \in 1..Len(emitted) : emitted[k].to = "running"
       /\ PushGuard("running", iframeUrl)
       /\ InFlightPushes < MaxPushes
    THEN {pushing, [pushing EXCEPT !["running"] = @ + 1]}
    ELSE {pushing}

\* ------------------------------------------------------------- observers
\* The observers: the plugin's own callback, registered at onload, and the
\* callback of each open view.
MaxViews == 2
Views == 1..MaxViews
PluginObserver == 0

\* Mutant of notifyStateChange: the loop ends after the first callback.
notifyFirstOnly(callbacks, s) ==
    [k \in 1..(IF Len(callbacks) > 0 THEN 1 ELSE 0) |->
        [observer |-> callbacks[k], state |-> s]]

\* The loop of notifyStateChange from position k on, part_002 lines 259-263:
\* for...of reads the array by index and tests its length before each
\* element.  The callback at position k runs and calls the disposers dis
\* gives it; a disposer takes its callback out of the array in place
\* (indexOf and splice, lines 251-256), so the elements behind it move one
\* position down while the loop's index goes one up.
RECURSIVE notifyLoop(_, _, _, _)
notifyLoop(callbacks, k, s, dis) ==
    IF k > Len(callbacks)
    THEN [delivered |-> <<>>, callbacks |-> callbacks]
    ELSE LET o == callbacks[k]
             spliced == SelectSeq(callbacks, LAMBDA x : x \notin dis[o])
             rest == notifyLoop(spliced, k + 1, s, dis)
         IN [delivered |-> <<[observer |-> o, state |-> s]>> \o rest.delivered,
             callbacks |-> rest.callbacks]

\* notifyStateChange: the callbacks it runs, in order.  No callback calls
\* start() or stop() before it returns.
notifyStateChange(callbacks, s) ==
    notifyLoop(callbacks, 1, s, disposes).delivered

\* The callbacks run by the setState calls of a step, in order, each call
\* finding the array as the one before left it.
RECURSIVE Deliveries(_, _)
Deliveries(callbacks, emitted) ==
    IF emitted = <<>>
    THEN <<>>
    ELSE notifyStateChange(callbacks, emitted[1].to)
            \o Deliveries(notifyLoop(callbacks, 1, emitted[1].to,
                                     disposes).callbacks,
                          Tail(emitted))

\* stateChangeCallbacks after the setState calls of a step.
RECURSIVE Remaining(_, _)
Remaining(callbacks, emitted) ==
    IF emitted = <<>>
    THEN callbacks
    ELSE Remaining(notifyLoop(callbacks, 1, emitted[1].to, disposes).callbacks,
                   Tail(emitted))

Registered(callbacks) == {callbacks[k] : k \in 1..Len(callbacks)}

\* The view's callback: this.currentState = state, part_003 lines 255-258.
viewStates(cur, callbacks, emitted) ==
    LET dl == Deliveries(callbacks, emitted)
        mine(v) == {k \in 1..Len(dl) : dl[k].observer = v}
    IN [v \in Views |->
           IF mine(v) = {}
           THEN cur[v]
           ELSE dl[CHOOSE k \in mine(v) : \A j \in mine(v) : j <= k].state]

\* Every action ends here: the world is written back, the observers being
\* callbacks and the views' states cur when the step began to call setState,
\* and the array being what the callbacks' disposers left of it; directory
\* is the project directory the step leaves.
CommitDir(w, callbacks, cur, directory) ==
    /\ state' = w.state
    /\ process' = w.process
    /\ lastError' = w.lastError
    /\ earlyExitCode' = w.earlyExitCode
    /\ child' = w.child
    /\ call' = Ordered(w.call)
    /\ passed' = w.passed
    /\ notified' = IF observed THEN w.emitted ELSE <<>>
    /\ stateChangeCallbacks' = Remaining(callbacks, w.emitted)
    /\ currentState' = viewStates(cur, callbacks, w.emitted)
    /\ UNCHANGED disposes
    /\ delivered' = IF observed THEN Deliveries(callbacks, w.emitted) ELSE <<>>
    /\ pushing' \in handleServerRunning(w.emitted)
    /\ UNCHANGED observed
    /\ projectDirectory' = directory
    /\ UNCHANGED <<platform, settings, ocVars, urlVars>>
    /\ UNCHANGED <<injectWorkspaceContext, listening, contextRefreshTimer,
                   timers, timerSeq, creating, burst, fired>>

CommitTo(w, callbacks, cur) == CommitDir(w, callbacks, cur, projectDirectory)

Commit(w) == CommitTo(w, stateChangeCallbacks, currentState)

\* A failed spawn emits "error" on the next tick (process.nextTick), before
\* any timer, network answer or further call is handled.
ErrorPending == \E c \in Children : child[c].st = "failed"

FreeSlots == {i \in Calls : ~InFlight(call[i])}
StartsInFlight == {i \in Calls : InFlight(call[i]) /\ call[i].op = "start"}
StopsInFlight == {i \in Calls : InFlight(call[i]) /\ call[i].op = "stop"}

\* A new call takes the lowest free slot.  overlap: for a start(), another
\* call was in progress at some moment of it; for a stop(), a start() was.
NewCall(i, op) ==
    [j \in Calls |->
        IF j = i
        THEN [IdleCall EXCEPT !.op = op, !.pc = "entered",
                              !.entryBusy = state \in {"running", "starting"},
                              !.entryProc = IF op = "start" THEN process ELSE Null,
                              !.overlap = IF op = "start"
                                          THEN StartsInFlight \cup StopsInFlight # {}
                                          ELSE StartsInFlight # {}]
        ELSE IF InFlight(call[j])
             THEN IF op = "start" \/ call[j].op = "start"
                  THEN [call[j] EXCEPT !.overlap = TRUE]
                  ELSE call[j]
             ELSE IdleCall]

\* start() is called: lines 46-59, up to the first await.
StartCall ==
    /\ ~ErrorPending
    /\ FreeSlots # {}
    /\ FreeChildren # {} \/ state \in {"running", "starting"}
    /\ LET i == Min(FreeSlots)
       IN Commit(startEnter([World EXCEPT !.call = NewCall(i, "start")],
                            i, projectDirectory))

\* checkServerHealth answers true when some server answers on the port in
\* time: a child's, or one the manager does not own, which may come and go
\* at any moment.  Nothing the manager holds decides the answer.
HealthPossible == TRUE

\* The first health probe answers: lines 59-128.
FirstProbeReturn(i) ==
    /\ ~ErrorPending
    /\ call[i].pc = "probe1"
    /\ \/ /\ HealthPossible
          /\ Commit(attach(World, i))
       \/ /\ FreeChildren # {}
          /\ \E st \in {"alive", "failed"} :
                Commit(spawn(World, i, Min(FreeChildren), st))

\* A health probe of the polling loop answers: lines 280-283, 129-132.
PollReturn(i) ==
    /\ ~ErrorPending
    /\ call[i].pc = "poll"
    /\ \/ /\ HealthPossible
          /\ Commit(setRunning([World EXCEPT !.call[i].probeOk = TRUE], i))
       \/ Commit([World EXCEPT !.call[i].pc = "sleep"])

\* The 500 ms sleep ends: the loop's tests, then lines 134-146.  Whether
\* startupTimeout has run out by now is the clock's answer.
SleepDone(i) ==
    /\ ~ErrorPending
    /\ call[i].pc = "sleep"
    /\ \E elapsed \in BOOLEAN, fails \in BOOLEAN :
          /\ fails => platform = "posix" /\ KillMayFail(World, process)
          /\ Commit(pollLoop(World, i, elapsed, fails))

\* stop() is called from outside: lines 148-171, up to the first await.
StopCall ==
    /\ ~ErrorPending
    /\ FreeSlots # {}
    /\ \E fails \in BOOLEAN :
          /\ fails => platform = "posix" /\ KillMayFail(World, process)
          /\ LET i == Min(FreeSlots)
             IN Commit(stop([World EXCEPT !.call = NewCall(i, "stop")], i, fails))

\* win32: a taskkill ends; exec's callback rejects on a nonzero exit status,
\* which taskkill gives when the process is no longer there.
KillReturn(i) ==
    /\ ~ErrorPending
    /\ call[i].pc \in {"kill1", "kill2"}
    /\ \/ /\ child[call[i].proc].st # "alive"
          /\ Commit(stopThrow(World, i))
       \/ Commit(IF call[i].pc = "kill1"
                 THEN waitForProcessExit(World, i, "wait1", "graceful")
                 ELSE waitForProcessExit(World, i, "wait2", "forced"))

\* A wait for the child's exit runs out: 2000 ms, then 3000 ms.
WaitTimeout(i) ==
    /\ ~ErrorPending
    /\ call[i].pc \in {"wait1", "wait2"}
    /\ \E fails \in BOOLEAN :
          /\ fails => /\ platform = "posix"
                      /\ call[i].pc = "wait1"
                      /\ KillMayFail(World, call[i].proc)
          /\ Commit(IF call[i].pc = "wait1"
                    THEN killProcessTree(World, i, "SIGKILL", fails,
                                         "kill2", "wait2", "forced")
                    ELSE stopReturn(World, i, "never"))

\* The child's process ends, by itself or because of a signal.
ChildDies(c) ==
    /\ ~ErrorPending
    /\ child[c].st = "alive"
    /\ child' = [child EXCEPT ![c].st = "dead"]
    /\ call' = Ordered(Live)
    /\ UNCHANGED <<state, process, lastError, earlyExitCode, platform, passed>>
    /\ notified' = <<>>
    /\ delivered' = <<>>
    /\ UNCHANGED <<observed, stateChangeCallbacks, currentState, disposes>>
    /\ UNCHANGED <<settings, projectDirectory, ocVars, urlVars, plVars>>

\* The child's "exit" event: the handler of lines 104-115, then the waiters.
ChildExit(c) ==
    /\ ~ErrorPending
    /\ child[c].st = "dead"
    /\ \E code \in {"zero", "nonzero", "null"} :
          Commit(resumeWaiters(exitHandler(World, c, code), c, Calls))

\* The child's "error" event after a failed spawn: lines 117-126.
ChildError(c) ==
    /\ child[c].st = "failed"
    /\ \E code \in {"ENOENT", "EACCES"} :
          Commit(noteError(errorHandler(World, c, code), c, code))

\* updateSettings: lines 25-27.
UpdateSettings ==
    /\ ~ErrorPending
    /\ \E s \in Settings \ {settings} : settings' = s
    /\ call' = Ordered(Live)
    /\ notified' = <<>>
    /\ delivered' = <<>>
    /\ UNCHANGED <<observed, stateChangeCallbacks, currentState, disposes>>
    /\ UNCHANGED <<state, process, lastError, earlyExitCode, child, platform,
                   passed, projectDirectory, ocVars, urlVars, plVars>>

\* updateProjectDirectory: lines 29-31.
UpdateProjectDirectory ==
    /\ ~ErrorPending
    /\ \E d \in Directories \ {projectDirectory} : projectDirectory' = d
    /\ call' = Ordered(Live)
    /\ notified' = <<>>
    /\ delivered' = <<>>
    /\ UNCHANGED <<observed, stateChangeCallbacks, currentState, disposes>>
    /\ UNCHANGED <<state, process, lastError, earlyExitCode, child, platform,
                   passed, settings, ocVars, urlVars, plVars>>

\* A view is opened: OpenCodeView.onOpen, part_003 lines 250-267.  The
\* callback is registered, the state is read, and a stopped server is
\* started, start() running up to its first await.
OnOpen(v) ==
    /\ ~ErrorPending
    /\ v \notin Registered(stateChangeCallbacks)
    /\ LET callbacks == Append(stateChangeCallbacks, v)
           cur == [currentState EXCEPT ![v] = state]
       IN IF state = "stopped"
          THEN /\ FreeSlots # {}
               /\ FreeChildren # {}
               /\ LET i == Min(FreeSlots)
                  IN CommitTo(startEnter([World EXCEPT
                                            !.call = NewCall(i, "start")],
                                         i, projectDirectory),
                              callbacks, cur)
          ELSE CommitTo(World, callbacks, cur)

\* A view is closed: OpenCodeView.onClose, part_003 lines 269-281, and the
\* splice of part_002 lines 251-256.  The view object is dropped; the next
\* one opened is a new object.
OnClose(v) ==
    /\ ~ErrorPending
    /\ v \in Registered(stateChangeCallbacks)
    /\ CommitTo(World,
                SelectSeq(stateChangeCallbacks, LAMBDA o : o # v),
                [currentState EXCEPT ![v] = "stopped"])

PMInit ==
    /\ state = "stopped"
    /\ process = Null
    /\ lastError = NoError
    /\ earlyExitCode = Null
    /\ child = [c \in Children |-> NoChild]
    /\ call = [i \in Calls |-> IdleCall]
    /\ platform \in {"posix", "win32"}
    /\ passed = 0
    /\ observed \in BOOLEAN
    /\ notified = <<>>
    /\ stateChangeCallbacks = <<PluginObserver>>
    /\ currentState = [v \in Views |-> "stopped"]
    /\ disposes \in [Views \cup {PluginObserver} -> SUBSET Views]
    /\ disposes[PluginObserver] = {}
    /\ delivered = <<>>
    /\ settings \in Settings
    /\ projectDirectory \in Directories

PMNext ==
    \/ UpdateProjectDirectory
    \/ StartCall
    \/ StopCall
    \/ \E i \in Calls : FirstProbeReturn(i)
    \/ \E i \in Calls : PollReturn(i)
    \/ \E i \in Calls : SleepDone(i)
    \/ \E i \in Calls : KillReturn(i)
    \/ \E i \in Calls : WaitTimeout(i)
    \/ \E c \in Children : ChildDies(c)
    \/ \E c \in Children : ChildExit(c)
    \/ \E c \in Children : ChildError(c)

\* ========================================================= OpenCodeClient
\* src/src/WorkspaceContext.ts, lines 127-307.
MaxParts == 2        \* parts the server creates in one behaviour

PartIds == 1..MaxParts
\* updateContext calls in progress at once.  The plugin awaits one call
\* before the next (the debounced refresh); resetTracking is not kept out
\* and may come while a call is suspended.
Slots == {1}
Sessions == {"S1", "S2"}
Texts == {"", "A", "B"}
NoSession == "null"

\* ---------------------------------------------------------- JSON values
JNull == [kind |-> "null"]
Part(id, sessionID, ignored) ==
    [kind |-> "part", id |-> id, messageID |-> id, sessionID |-> sessionID,
     ignored |-> ignored]
\* A message with its parts; infoId = Null stands for a missing info.id.
Message(infoId, parts) ==
    [kind |-> "message", infoId |-> infoId, parts |-> parts]
\* { data: ..., message: ... }; a field that is absent is JNull.
Envelope(data, message) ==
    [kind |-> "envelope", data |-> data, message |-> message]

\* A body of another shape: a truthy primitive (true, a number, a string).
\* An object with none of the fields the client reads is Envelope(JNull,
\* JNull).
JTrue == [kind |-> "true"]
\* A session as POST /session returns it; id = Null stands for a missing id.
Session(id) == [kind |-> "session", id |-> id]

\* null and undefined are one value here: both are falsy, both give way to
\* the right side of ??, and a plain property read of either throws.
Truthy(v) == v # JNull

\* v.f for a truthy v: the field, or undefined when v has none (a missing
\* sessionID reads NoSession, a missing id Null, a missing flag FALSE).
Get(v, f) ==
    IF f \in DOMAIN v
    THEN v[f]
    ELSE CASE f = "sessionID" -> NoSession
           [] f = "ignored" -> FALSE
           [] OTHER -> Null

\* payload.data, payload.message of unwrap: the field of an object that has
\* it, undefined otherwise (a primitive has no fields).
Field(v, f) == IF f \in DOMAIN v THEN v[f] ELSE JNull

unwrap(result) ==
    IF ~Truthy(result)
    THEN JNull
    ELSE IF Truthy(Field(result, "data"))
         THEN result.data
         ELSE IF Truthy(Field(result, "message"))
              THEN result.message
              ELSE result

\* ------------------------------------------------------------ the records
\* An updateContext or createSession call.  op, pc, sessionId, contextText
\* are the call's own; the other fields are history, read by the properties
\* only.  resps: per answer "ok" (the documented body), "odd" (another JSON
\* body), "fail" (request() returned null).
IdleUpd ==
    [op |-> "none", pc |-> "idle", result |-> "none",
     sessionId |-> NoSession, contextText |-> "",
     reqs |-> <<>>, resps |-> <<>>, allOk |-> TRUE, caught |-> FALSE,
     overlap |-> FALSE,   \* overlap: another call or a resetTracking came
                          \* while this call was suspended
     entryTracked |-> NoSession, entryPart |-> JNull,
     posted |-> Null, retPart |-> JNull]

\* c is a returned updateContext(S, empty) that found a part tracked for S.
ClearsLive(c) ==
    /\ c.op = "updateContext" /\ c.pc = "done" /\ ~c.overlap /\ c.contextText = ""
    /\ Truthy(c.entryPart) /\ c.entryTracked = c.sessionId

\* c is a returned updateContext(S, text), text non-empty, that found no
\* part tracked and whose remote calls succeeded.
FirstPush(c) ==
    /\ c.op = "updateContext" /\ c.pc = "done" /\ ~c.overlap /\ c.allOk
    /\ c.contextText # "" /\ ~Truthy(c.entryPart)

\* What is remembered of the updateContext call that returned last: its
\* session, whether anything came in between, which of the two kinds above
\* it was, and for a first push its text, its requests and the part id its
\* POST was answered with.
NoPrev ==
    [returned |-> FALSE, sessionId |-> NoSession, overlap |-> FALSE,
     clearsLive |-> FALSE, firstPush |-> FALSE, contextText |-> "",
     reqs |-> <<>>, posted |-> Null]
Summary(c) ==
    [returned |-> TRUE, sessionId |-> c.sessionId, overlap |-> c.overlap,
     clearsLive |-> ClearsLive(c), firstPush |-> FirstPush(c),
     contextText |-> IF FirstPush(c) THEN c.contextText ELSE "",
     reqs |-> IF FirstPush(c) THEN c.reqs ELSE <<>>,
     posted |-> IF FirstPush(c) THEN c.posted ELSE Null]

UpdLive == [i \in Slots |-> IF upd[i].pc = "done" THEN IdleUpd ELSE upd[i]]

OCWorld ==
    [trackedSessionId |-> trackedSessionId, lastPart |-> lastPart,
     upd |-> UpdLive, remote |-> remote,
     prev |-> IF \E i \in Slots : upd[i].pc = "done" /\ upd[i].op = "updateContext"
              THEN Summary(upd[CHOOSE i \in Slots : upd[i].pc = "done"])
              ELSE prev,
     resets |-> resets]

OCCommit(o) ==
    /\ trackedSessionId' = o.trackedSessionId
    /\ lastPart' = o.lastPart
    /\ upd' = o.upd
    /\ remote' = o.remote
    /\ prev' = o.prev
    /\ resets' = o.resets
    /\ UNCHANGED <<pmVars, urlVars, obsVars, plVars>>

\* -------------------------------------------------------------- requests
PatchRequest(part, text, ignored) ==
    [method |-> "PATCH", sessionID |-> Get(part, "sessionID"),
     messageID |-> Get(part, "messageID"), id |-> Get(part, "id"),
     text |-> text, ignored |-> ignored]
PostRequest(sessionId, text) ==
    [method |-> "POST", sessionID |-> sessionId, messageID |-> Null,
     id |-> Null, text |-> text, ignored |-> FALSE]

SessionRequest ==
    [method |-> "POST", sessionID |-> NoSession, messageID |-> Null,
     id |-> Null, text |-> "Obsidian", ignored |-> FALSE]

\* What the transport does with a request: fetch rejects, the status is not
\* 2xx, the body is empty or no JSON, or the body is a JSON value.
Failures == {[t |-> "networkError"], [t |-> "status"], [t |-> "noJson"]}
Answer(body) == [t |-> "json", body |-> body]
\* An exception on its way out of an async method.
Thrown == [kind |-> "thrown"]

\* Mutant of requestDone: no try/catch around the fetch.
requestDoneNoCatch(outcome) ==
    CASE outcome.t = "networkError" -> Thrown
      [] outcome.t = "json" -> outcome.body
      [] OTHER -> JNull

\* request() after its awaits: lines 270-285.  The catch of line 282 turns
\* a rejected fetch into null, .catch(() => null) a body without JSON.
requestDone(outcome) ==
    CASE outcome.t = "networkError" -> JNull
      [] outcome.t = "status" -> JNull
      [] outcome.t = "noJson" -> JNull
      [] outcome.t = "json" -> outcome.body

\* request(): the fetch leaves; the call is suspended until the answer.
request(o, i, req, pc) ==
    [o EXCEPT !.upd[i].pc = pc, !.upd[i].reqs = Append(@, req)]

updReturn(o, i) ==
    [o EXCEPT !.upd[i].pc = "done", !.upd[i].retPart = o.lastPart,
              !.upd[i].result = "void"]

\* The call rejects: an exception left the async method.
updThrow(o, i) ==
    [o EXCEPT !.upd[i].pc = "done", !.upd[i].retPart = o.lastPart,
              !.upd[i].result = "threw"]

\* updatePart up to its await: lines 227-235.  The path reads part.sessionID,
\* part.messageID and part.id, which throws when part is null.
updatePart(o, i, part, text, ignored, pc) ==
    IF ~Truthy(part)
    THEN updThrow(o, i)
    ELSE request(o, i, PatchRequest(part, text, ignored), pc)

resetTracking(o) ==
    [o EXCEPT !.trackedSessionId = NoSession, !.lastPart = JNull]

sendPrompt(o, i) ==
    request(o, i, PostRequest(o.upd[i].sessionId, o.upd[i].contextText),
            "post")

\* ignorePreviousPart up to its await; without a part it returns false at
\* once and the caller goes on: returns (toPrompt = FALSE) or sendPrompt.
ignorePreviousPart(o, i, pc, toPrompt) ==
    IF ~Truthy(o.lastPart)
    THEN IF toPrompt THEN sendPrompt(o, i) ELSE updReturn(o, i)
    ELSE updatePart(o, i, o.lastPart, "", TRUE, pc)

\* Mutant of updateContextEnter: a session change does not reset the
\* tracking (lines 183-185 missing).
updateContextEnterKeepsPart(o, i) ==
    LET contextText == o.upd[i].contextText
        o2 == [o EXCEPT !.trackedSessionId = o.upd[i].sessionId]
    IN IF contextText = ""
       THEN ignorePreviousPart(o2, i, "ignoreOnly", FALSE)
       ELSE IF Truthy(o2.lastPart)
            THEN updatePart(o2, i, o2.lastPart, contextText,
                            Get(o2.lastPart, "ignored"), "update")
            ELSE sendPrompt(o2, i)

\* updateContext up to its first await: lines 177-202.
updateContextEnter(o, i) ==
    LET sessionId == o.upd[i].sessionId
        contextText == o.upd[i].contextText
        o1 == IF o.trackedSessionId # NoSession /\ o.trackedSessionId # sessionId
              THEN resetTracking(o)
              ELSE o
        o2 == [o1 EXCEPT !.trackedSessionId = sessionId]
    IN IF contextText = ""
       THEN ignorePreviousPart(o2, i, "ignoreOnly", FALSE)
       ELSE IF Truthy(o2.lastPart)
            THEN updatePart(o2, i, o2.lastPart, contextText,
                            Get(o2.lastPart, "ignored"), "update")
            ELSE sendPrompt(o2, i)

\* updatePart after its await: lines 236-241.
updatePartDone(o, result) ==
    IF Truthy(unwrap(result)) THEN [o EXCEPT !.lastPart = unwrap(result)] ELSE o

\* ignorePreviousPart after its await: lines 250-255.
ignoreDone(o, result) ==
    IF Truthy(unwrap(result))
    THEN [updatePartDone(o, result) EXCEPT !.lastPart = JNull]
    ELSE o

\* Mutant of updateDone: after a failed update the stale part is not
\* tombstoned (line 198 missing).
updateDoneSkipsIgnore(o, i, result) ==
    IF Truthy(unwrap(result))
    THEN updReturn(updatePartDone(o, result), i)
    ELSE sendPrompt(o, i)

\* updateContext after the in-place update: lines 194-199.
updateDone(o, i, result) ==
    IF Truthy(unwrap(result))
    THEN updReturn(updatePartDone(o, result), i)
    ELSE ignorePreviousPart(o, i, "ignoreThen", TRUE)

\* Mutant of promptDone: the part of the new message is not remembered.
promptDoneForgets(o, i, result) == updReturn(o, i)

\* sendPrompt after its await and the end of updateContext: lines 217-224,
\* 201-204.
promptDone(o, i, result) ==
    LET message == unwrap(result)
        hasId == /\ Truthy(message) /\ message.kind = "message"
                 /\ message.infoId # Null
        part == IF hasId /\ Len(message.parts) > 0
                THEN message.parts[1] ELSE JNull
    IN updReturn(IF hasId THEN [o EXCEPT !.lastPart = part] ELSE o, i)

\* createSession after its await: lines 173-174, session?.id ?? null.
createSessionDone(o, i, result) ==
    LET session == unwrap(result)
        id == IF Truthy(session) /\ session.kind = "session"
              THEN session.id ELSE NoSession
    IN [o EXCEPT !.upd[i].pc = "done", !.upd[i].result = id]

\* --------------------------------------------------------------- the server
\* The request a suspended call waits for.
Pending(i) == upd[i].reqs[Len(upd[i].reqs)]

FreePartIds == {k \in PartIds : remote[k].st = "none"}

\* The server applies a PATCH to a part it has.
patched(o, req) ==
    [o EXCEPT !.remote[req.id].st = IF req.ignored THEN "ignored" ELSE "live"]

\* The server creates the message of a POST, with one part.
created(o, req, k) ==
    [o EXCEPT !.remote[k] = [st |-> "live", sessionID |-> req.sessionID]]

\* The bodies a PATCH that was applied can be answered with: the part, bare
\* or in an envelope.
PatchBodies(req) ==
    LET part == Part(req.id, req.sessionID, req.ignored)
    IN {part, Envelope(part, JNull), Envelope(JNull, part)}

\* The bodies a POST that was applied can be answered with: the message and
\* its part, bare or in an envelope.
PostBodies(req, k) ==
    LET message == Message(k, <<Part(k, req.sessionID, FALSE)>>)
    IN {message, Envelope(message, JNull), Envelope(JNull, message)}

\* Other bodies of a 2xx answer: a primitive, an object without the fields,
\* an envelope around a primitive.
OddBodies == {JTrue, Envelope(JNull, JNull), Envelope(JTrue, JNull)}

\* Other bodies of a 2xx answer to a POST: a message without parts, a
\* message without info.id, a message whose first part is no part.
OddPostBodies(req, k) ==
    {Message(k, <<>>), Message(Null, <<Part(k, req.sessionID, FALSE)>>),
     Message(k, <<JTrue>>)} \cup OddBodies

\* The bodies POST /session is answered with: the session, bare or in an
\* envelope, with or without an id, and bodies of another shape.
SessionBodies ==
    {Session(sid) : sid \in Sessions}
        \cup {Envelope(Session(sid), JNull) : sid \in Sessions}
SessionOdd == {Session(NoSession)} \cup OddBodies

\* History: the answer was the documented body (ok) or not; a rejected
\* fetch was caught.
answered(o, i, outcome, ok) ==
    [o EXCEPT !.upd[i].resps =
                 Append(@, IF ok THEN "ok"
                           ELSE IF outcome.t = "json" /\ Truthy(outcome.body)
                                THEN "odd" ELSE "fail"),
              !.upd[i].allOk = @ /\ ok,
              !.upd[i].caught = @ \/ outcome.t = "networkError"]

\* --------------------------------------------------------------- actions
UpdFree == {i \in Slots : upd[i].pc \in {"idle", "done"}}
UpdInFlight == Slots \ UpdFree

\* updateContext is called: lines 177-202, up to the first await.
UpdateContext ==
    /\ UpdFree # {}
    /\ Cardinality(FreePartIds) > Cardinality(UpdInFlight)
    /\ \E sessionId \in Sessions, contextText \in Texts :
          LET i == Min(UpdFree)
              o == [OCWorld EXCEPT
                      !.upd = [j \in Slots |->
                         IF j = i
                         THEN [IdleUpd EXCEPT
                                 !.op = "updateContext", !.pc = "entered",
                                 !.sessionId = sessionId,
                                 !.contextText = contextText,
                                 !.overlap = UpdInFlight # {},
                                 !.entryTracked = trackedSessionId,
                                 !.entryPart = lastPart]
                         ELSE [@[j] EXCEPT !.overlap = @ \/ j \in UpdInFlight]]]
          IN OCCommit(updateContextEnter(o, i))

\* The server has the part a PATCH names.
Patchable(req) == req.id \in PartIds /\ remote[req.id].st # "none"

\* A PATCH is answered: a failure or a body of another shape, whether the
\* server applied the PATCH or not, or the updated part.
PatchAnswered(i) ==
    /\ upd[i].pc \in {"ignoreOnly", "update", "ignoreThen"}
    /\ LET req == Pending(i)
       IN \E outcome \in Failures \cup
                         {Answer(b) : b \in PatchBodies(req) \cup OddBodies
                                                \cup {JNull}},
             applied \in BOOLEAN :
             LET ok == outcome.t = "json" /\ outcome.body \in PatchBodies(req)
                 result == requestDone(outcome)
                 o1 == IF applied THEN patched(OCWorld, req) ELSE OCWorld
                 o == answered(o1, i, outcome, ok)
             IN /\ applied => Patchable(req)
                /\ ok => applied
                /\ OCCommit(CASE result = Thrown -> updThrow(o, i)
                              [] upd[i].pc = "ignoreOnly" ->
                                    updReturn(ignoreDone(o, result), i)
                              [] upd[i].pc = "update" ->
                                    updateDone(o, i, result)
                              [] upd[i].pc = "ignoreThen" ->
                                    sendPrompt(ignoreDone(o, result), i))

\* A POST of a message is answered: a failure or a body of another shape,
\* whether the server created the message or not, or the message.
PostAnswered(i) ==
    /\ upd[i].pc = "post"
    /\ LET k == Min(FreePartIds)
           req == Pending(i)
       IN \E outcome \in Failures \cup
                         {Answer(b) : b \in PostBodies(req, k)
                                          \cup OddPostBodies(req, k) \cup {JNull}},
             applied \in BOOLEAN :
             LET ok == outcome.t = "json" /\ outcome.body \in PostBodies(req, k)
                 result == requestDone(outcome)
                 o1 == IF applied THEN created(OCWorld, req, k) ELSE OCWorld
                 o2 == [answered(o1, i, outcome, ok) EXCEPT
                           !.upd[i].posted = IF ok THEN k ELSE Null]
             IN /\ ok => applied
                /\ OCCommit(IF result = Thrown
                            THEN updThrow(o2, i)
                            ELSE promptDone(o2, i, result))

\* createSession is called: lines 169-172, up to the await.
CreateSession ==
    /\ UpdFree # {}
    /\ LET i == Min(UpdFree)
           o == [OCWorld EXCEPT !.upd[i] =
                    [IdleUpd EXCEPT !.op = "createSession", !.pc = "entered"]]
       IN OCCommit(request(o, i, SessionRequest, "session"))

\* POST /session is answered.
SessionAnswered(i) ==
    /\ upd[i].pc = "session"
    /\ \E outcome \in Failures \cup
                      {Answer(b) : b \in SessionBodies \cup SessionOdd \cup {JNull}} :
          LET ok == outcome.t = "json" /\ outcome.body \in SessionBodies
              result == requestDone(outcome)
              o == answered(OCWorld, i, outcome, ok)
          IN OCCommit(IF result = Thrown
                      THEN updThrow(o, i)
                      ELSE createSessionDone(o, i, result))

\* resetTracking(), from outside (updateBaseUrl with a changed URL or
\* directory): lines 155-158.
ResetTracking ==
    /\ trackedSessionId # NoSession \/ Truthy(lastPart)
    /\ OCCommit([resetTracking(OCWorld) EXCEPT
                    !.prev = NoPrev,
                    !.resets = IF \/ \E j \in UpdInFlight : upd[j].op = "updateContext"
                                  \/ @ = "during"
                               THEN "during" ELSE "between",
                    !.upd = [j \in Slots |->
                               [@[j] EXCEPT !.overlap = @ \/ j \in UpdInFlight]]])

OCInit ==
    /\ trackedSessionId = NoSession
    /\ lastPart = JNull
    /\ upd = [i \in Slots |-> IdleUpd]
    /\ remote = [k \in PartIds |-> [st |-> "none", sessionID |-> NoSession]]
    /\ prev = NoPrev
    /\ resets = "none"

OCNext ==
    \/ UpdateContext
    \/ \E i \in Slots : PatchAnswered(i)
    \/ \E i \in Slots : PostAnswered(i)
    \/ CreateSession
    \/ \E i \in Slots : SessionAnswered(i)
    \/ ResetTracking

\* updateBaseUrl, what it does to uiBaseUrl: lines 140-153.
UpdateBaseUrl ==
    /\ \E b \in BaseUrls :
          /\ normalizeBaseUrl(b) # uiBaseUrl
          /\ uiBaseUrl' = normalizeBaseUrl(b)
    /\ UNCHANGED <<iframeUrl, resolved, unwrapCall, unwrapped, pmVars, ocVars,
                   obsVars, plVars>>

\* getSessionUrl is called for a session id: lines 160-162.
GetSessionUrl ==
    /\ \E id \in Ids : iframeUrl' = [id |-> id, url |-> getSessionUrl(id)]
    /\ resolved' = NotResolved
    /\ UNCHANGED <<uiBaseUrl, unwrapCall, unwrapped, pmVars, ocVars, obsVars,
                   plVars>>

\* resolveSessionId is called with the URL handed out last: lines 164-167.
ResolveSessionId ==
    /\ iframeUrl # NoUrl
    /\ ~resolved.asked
    /\ resolved' = [asked |-> TRUE, of |-> iframeUrl.id,
                    id |-> resolveSessionId(iframeUrl.url)]
    /\ UNCHANGED <<uiBaseUrl, iframeUrl, unwrapCall, unwrapped, pmVars, ocVars,
                   obsVars, plVars>>

\* --------------------------------------------------------------- unwrap
\* The payloads of the remote API: a part, a message with its parts, a
\* session; and objects that carry a field named data or message of their
\* own next to their other fields.
WithField(p, f, v) ==
    [x \in DOMAIN p \cup {f} |-> IF x = f THEN v ELSE p[x]]
Payloads ==
    LET parts == {Part(k, sid, ig) :
                     k \in PartIds, sid \in Sessions, ig \in BOOLEAN}
        plain == parts
                   \cup {Message(k, <<part>>) : k \in PartIds, part \in parts}
                   \cup {Session(sid) : sid \in Sessions}
    IN plain \cup {WithField(Session(sid), f, JTrue) :
                      sid \in Sessions, f \in {"data", "message"}}
Shapes == {"absent", "direct", "data", "message"}

\* The response of one shape around a payload; under a key the payload may
\* be null.
Shaped(shape, payload) ==
    CASE shape = "absent" -> JNull
      [] shape = "direct" -> payload
      [] shape = "data" -> [data |-> payload]
      [] shape = "message" -> [message |-> payload]

NoUnwrap == [shape |-> "none", payload |-> JNull, result |-> JNull]

\* unwrap is called with a response: lines 288-302.
Unwrap ==
    /\ \E shape \in Shapes :
       \E payload \in IF shape = "absent" THEN {JNull}
                      ELSE IF shape = "direct" THEN Payloads
                      ELSE Payloads \cup {JNull} :
          /\ unwrapCall' = [shape |-> shape, payload |-> payload,
                            result |-> Shaped(shape, payload)]
          /\ unwrapped' = unwrap(Shaped(shape, payload))
    /\ UNCHANGED <<uiBaseUrl, iframeUrl, resolved, pmVars, ocVars, obsVars,
                   plVars>>

UrlInit ==
    /\ uiBaseUrl \in {normalizeBaseUrl(b) : b \in BaseUrls}
    /\ iframeUrl = NoUrl
    /\ resolved = NotResolved
    /\ unwrapCall = NoUnwrap
    /\ unwrapped = JNull

SessionNext ==
    \/ UpdateBaseUrl
    \/ GetSessionUrl
    \/ ResolveSessionId

\* ------------------------------------------------- the coordinating layer
\* OpenCodePlugin's context pushes.  A push is in flight from the moment
\* updateOpenCodeContext has passed its tests and called the client's
\* updateContext until that call returns.

\* updateOpenCodeContext up to the await of line 390, called by origin with
\* url the cached or displayed URL.
updateOpenCodeContext(origin, url) ==
    IF PushGuard(state, url)
    THEN /\ InFlightPushes < MaxPushes
         /\ pushing' = [pushing EXCEPT ![origin] = @ + 1]
    ELSE UNCHANGED pushing

\* Mutant of scheduleContextRefresh: the pending timer is not cancelled.
scheduleNoCancel ==
    /\ listening
    /\ timerSeq < MaxTimers
    /\ timers' = timers \cup {timerSeq + 1}
    /\ contextRefreshTimer' = timerSeq + 1
    /\ timerSeq' = timerSeq + 1
    /\ burst' = IF burst = 0 THEN 1 ELSE 2
    /\ fired' = 0
    /\ UNCHANGED <<injectWorkspaceContext, listening, pushing, creating,
                   otherVars>>

\* scheduleContextRefresh with a leaf to refresh: lines 316-330.  A
\* registered listener calls it; without a leaf it returns at line 319.
scheduleContextRefresh ==
    /\ listening
    /\ timerSeq < MaxTimers
    /\ timers' = (IF contextRefreshTimer # Null
                  THEN timers \ {contextRefreshTimer}
                  ELSE timers) \cup {timerSeq + 1}
    /\ contextRefreshTimer' = timerSeq + 1
    /\ timerSeq' = timerSeq + 1
    /\ burst' = IF burst = 0 THEN 1 ELSE 2
    /\ fired' = 0
    /\ UNCHANGED <<injectWorkspaceContext, listening, pushing, creating,
                   otherVars>>

\* A pending timer fires: the callback of lines 326-329.
TimerFires ==
    \E t \in timers :
        /\ timers' = timers \ {t}
        /\ contextRefreshTimer' = Null
        /\ burst' = 0
        /\ fired' = fired + 1
        /\ updateOpenCodeContext("timer", iframeUrl)
        /\ UNCHANGED <<injectWorkspaceContext, listening, timerSeq, creating,
                       otherVars>>

\* saveSettings with the setting changed: updateContextListeners, lines
\* 278-303, and clearContextListeners, lines 305-314.
UpdateContextListeners ==
    /\ injectWorkspaceContext' = ~injectWorkspaceContext
    /\ IF injectWorkspaceContext
       THEN /\ listening' = FALSE
            /\ timers' = IF contextRefreshTimer # Null
                          THEN timers \ {contextRefreshTimer}
                          ELSE timers
            /\ contextRefreshTimer' = Null
       ELSE /\ listening' = TRUE
            /\ UNCHANGED <<timers, contextRefreshTimer>>
    /\ UNCHANGED <<timerSeq, pushing, creating, burst, fired, otherVars>>

\* ensureSessionUrl up to its await: lines 216-227.  It goes on to
\* createSession when the server runs and no URL with a session id is cached
\* or displayed.
EnsureSessionUrl ==
    /\ ~creating
    /\ state = "running"
    /\ iframeUrl = NoUrl \/ resolveSessionId(iframeUrl.url) = NoId
    /\ creating' = TRUE
    /\ UNCHANGED <<injectWorkspaceContext, listening, contextRefreshTimer,
                   timers, timerSeq, pushing, burst, fired, otherVars>>

\* createSession has answered: lines 227-238.  Without an id nothing is
\* done; with one (of one character here) the URL is cached and displayed
\* and, when the view's leaf is the active one, updateOpenCodeContext is
\* called.
SessionCreated ==
    /\ creating
    /\ creating' = FALSE
    /\ \/ UNCHANGED <<iframeUrl, resolved, pushing>>
       \/ \E id \in {x \in Ids : Len(x) = 1}, active \in BOOLEAN :
             LET url == [id |-> id, url |-> getSessionUrl(id)]
             IN /\ iframeUrl' = url
                /\ resolved' = NotResolved
                /\ IF active
                   THEN updateOpenCodeContext("session", url)
                   ELSE UNCHANGED pushing
    /\ UNCHANGED <<injectWorkspaceContext, listening, contextRefreshTimer,
                   timers, timerSeq, burst, fired>>
    /\ UNCHANGED <<uiBaseUrl, unwrapCall, unwrapped, pmVars, ocVars, obsVars>>

\* refreshClientState after the base URL has changed, lines 265-276, with
\* no URL displayed: the cached URL is dropped.
DropSessionUrl ==
    /\ iframeUrl # NoUrl
    /\ iframeUrl' = NoUrl
    /\ resolved' = NotResolved
    /\ UNCHANGED <<uiBaseUrl, unwrapCall, unwrapped, pmVars, ocVars, obsVars,
                   plVars>>

\* refreshContextForView: lines 241-247.
RefreshContextForView ==
    /\ injectWorkspaceContext
    /\ updateOpenCodeContext("view", iframeUrl)
    /\ UNCHANGED <<injectWorkspaceContext, listening, contextRefreshTimer,
                   timers, timerSeq, creating, burst, fired, otherVars>>

\* The client's updateContext returns to updateOpenCodeContext: line 390.
PushReturns ==
    \E origin \in Origins :
        /\ pushing[origin] > 0
        /\ pushing' = [pushing EXCEPT ![origin] = @ - 1]
        /\ UNCHANGED <<injectWorkspaceContext, listening, contextRefreshTimer,
                       timers, timerSeq, creating, burst, fired, otherVars>>

\* After onload: the listeners are registered when the setting is on.
PluginInit ==
    /\ injectWorkspaceContext \in BOOLEAN
    /\ listening = injectWorkspaceContext
    /\ contextRefreshTimer = Null
    /\ timers = {}
    /\ timerSeq = 0
    /\ pushing = [o \in Origins |-> 0]
    /\ creating = FALSE
    /\ burst = 0
    /\ fired = 0

\* ------------------------------------------------------ the specifications
\* The callbacks of the plugin and of its views call no disposer.
Init ==
    /\ PMInit /\ OCInit /\ UrlInit /\ PluginInit
    /\ \A v \in Views : disposes[v] = {}
DefaultSettings == [hostname |-> "127.0.0.1", port |-> 14096]
InitObserved ==
    /\ Init
    /\ settings = DefaultSettings /\ uiBaseUrl = HttpH /\ observed
    /\ injectWorkspaceContext
InitPM ==
    /\ Init
    /\ settings = DefaultSettings /\ uiBaseUrl = HttpH /\ ~observed
    /\ injectWorkspaceContext
InitOC == InitPM /\ platform = "posix" /\ projectDirectory = "vault"

\* The process manager with its settings as constructed, the client at rest.
Spec == InitPM /\ [][PMNext]_vars

\* The client, the process manager at rest.
SpecOC == InitOC /\ [][OCNext]_vars

\* The process manager with its settings and its directory updated at any
\* moment, start() and stop() called one at a time.
NoCallInFlight == \A i \in Calls : ~InFlight(call[i])
StartAlone == NoCallInFlight /\ StartCall
StopAlone == NoCallInFlight /\ StopCall

UrlNext ==
    \/ UpdateSettings
    \/ UpdateProjectDirectory
    \/ StartAlone
    \/ StopAlone
    \/ \E i \in Calls : FirstProbeReturn(i)
    \/ \E i \in Calls : PollReturn(i)
    \/ \E i \in Calls : SleepDone(i)
    \/ \E i \in Calls : KillReturn(i)
    \/ \E i \in Calls : WaitTimeout(i)
    \/ \E c \in Children : ChildDies(c)
    \/ \E c \in Children : ChildExit(c)
    \/ \E c \in Children : ChildError(c)

SpecUrl == InitPM /\ [][UrlNext]_vars

\* The process manager, every notification of its observers recorded.
SpecObserved == InitObserved /\ [][PMNext]_vars

\* The process manager and its observers: views opened and closed at any
\* moment, start() and stop() called one at a time.
OpenAlone(v) == (state = "stopped" => NoCallInFlight) /\ OnOpen(v)

NotifyNext ==
    \/ \E v \in Views : OpenAlone(v)
    \/ \E v \in Views : OnClose(v)
    \/ UpdateProjectDirectory
    \/ StartAlone
    \/ StopAlone
    \/ \E i \in Calls : FirstProbeReturn(i)
    \/ \E i \in Calls : PollReturn(i)
    \/ \E i \in Calls : SleepDone(i)
    \/ \E i \in Calls : KillReturn(i)
    \/ \E i \in Calls : WaitTimeout(i)
    \/ \E c \in Children : ChildDies(c)
    \/ \E c \in Children : ChildExit(c)
    \/ \E c \in Children : ChildError(c)

SpecNotify == InitObserved /\ [][NotifyNext]_vars

\* OpenCodePlugin.updateProjectDirectory after its await of saveData, part_002
\* lines 116-122, the server running: the directory is set, stopServer()
\* calls stop() and does not await it, startServer() calls start(); both run
\* up to their first await.  A stop() that rejects rejects a promise nobody
\* holds.  restart remembers on both calls the child the stop() took, or that
\* it took none.  (refreshClientState, line 117, finds nothing tracked.)
NoChildTaken == -1
RestartServer ==
    /\ ~ErrorPending
    /\ NoCallInFlight
    /\ state = "running"
    /\ \E d \in Directories, fails \in BOOLEAN :
          /\ fails => platform = "posix" /\ KillMayFail(World, process)
          /\ LET old == IF process = Null THEN NoChildTaken ELSE process
                 stopping == [IdleCall EXCEPT !.op = "stop", !.pc = "entered",
                                              !.entryBusy = TRUE,
                                              !.restart = old]
                 w1 == stop([World EXCEPT
                               !.call = [k \in Calls |->
                                           IF k = 1 THEN stopping
                                                    ELSE IdleCall]],
                            1, fails)
                 meet == InFlight(w1.call[1])
                 starting == [IdleCall EXCEPT !.op = "start", !.pc = "entered",
                                              !.overlap = meet,
                                              !.restart = old]
                 w2 == [w1 EXCEPT !.call[1].overlap = meet,
                                  !.call[2] = starting]
             IN CommitDir(startEnter(w2, 2, d), stateChangeCallbacks,
                          currentState, d)

RestartNext ==
    \/ RestartServer
    \/ UpdateProjectDirectory
    \/ StartAlone
    \/ \E i \in Calls : FirstProbeReturn(i)
    \/ \E i \in Calls : PollReturn(i)
    \/ \E i \in Calls : SleepDone(i)
    \/ \E i \in Calls : KillReturn(i)
    \/ \E i \in Calls : WaitTimeout(i)
    \/ \E c \in Children : ChildDies(c)
    \/ \E c \in Children : ChildExit(c)
    \/ \E c \in Children : ChildError(c)

SpecRestart == InitPM /\ [][RestartNext]_vars

\* The registry of observers by itself: onProcessStateChange, part_002 lines
\* 249-257, is public, and a callback given to it may call a disposer before
\* it returns, its own or another's, at most one here.
InitRegistry ==
    /\ PMInit /\ OCInit /\ UrlInit /\ PluginInit
    /\ \A v \in Views : Cardinality(disposes[v]) <= 1
    /\ settings = DefaultSettings /\ uiBaseUrl = HttpH /\ observed
    /\ injectWorkspaceContext /\ platform = "posix"

\* onProcessStateChange(callback): line 250, the push.
Register(v) ==
    /\ ~ErrorPending
    /\ v \notin Registered(stateChangeCallbacks)
    /\ CommitTo(World, Append(stateChangeCallbacks, v), currentState)

RegistryNext ==
    \/ \E v \in Views : Register(v)
    \/ \E v \in Views : OnClose(v)
    \/ StartAlone
    \/ StopAlone
    \/ \E i \in Calls : FirstProbeReturn(i)
    \/ \E i \in Calls : PollReturn(i)
    \/ \E i \in Calls : SleepDone(i)
    \/ \E i \in Calls : WaitTimeout(i)
    \/ \E c \in Children : ChildDies(c)
    \/ \E c \in Children : ChildExit(c)
    \/ \E c \in Children : ChildError(c)

SpecRegistry == InitRegistry /\ [][RegistryNext]_vars

\* The client's session URLs, everything else at rest.
InitSession ==
    /\ Init
    /\ platform = "posix"
    /\ settings = DefaultSettings
    /\ projectDirectory = "vault"
    /\ ~observed
    /\ injectWorkspaceContext
SpecSession == InitSession /\ [][SessionNext]_vars

\* unwrap on the responses of every shape, everything else at rest.
SpecUnwrap == InitSession /\ [][Unwrap]_vars

\* The coordinating layer over a server that is started and stopped, one
\* call at a time, and answers the health probes or not.
InitPlugin == InitOC
PluginNext ==
    \/ scheduleContextRefresh
    \/ TimerFires
    \/ UpdateContextListeners
    \/ EnsureSessionUrl
    \/ SessionCreated
    \/ DropSessionUrl
    \/ RefreshContextForView
    \/ PushReturns
    \/ StartAlone
    \/ StopAlone
    \/ \E i \in Calls : FirstProbeReturn(i)
    \/ \E i \in Calls : PollReturn(i)
SpecPlugin == InitPlugin /\ [][PluginNext]_vars

\* ===================================================== properties, start/stop
StartDone(i) == call[i].op = "start" /\ call[i].pc = "done"
StopDone(i) == call[i].op = "stop" /\ call[i].pc = "done"
Spawned == {c \in Children : child[c].st # "none"}

\* C1: a start() called while state is Starting or Running returns true at
\* once, without a health probe and without a spawn; so as long as one call
\* only got past the guard, at most one child has been spawned.
C1_GuardedStartSpawnsNothing ==
    /\ \A i \in Calls :
          call[i].op = "start" /\ call[i].entryBusy =>
             /\ call[i].pc = "done"
             /\ call[i].result = "true"
             /\ ~call[i].probed
             /\ call[i].spawned = Null
    /\ passed <= 1 => Cardinality(Spawned) <= 1

\* C1 witness: a second start() returned through the guard while the first
\* one, which has spawned its child, is still waiting for the server.
C1_Witness ==
    \E i, j \in Calls :
        /\ StartDone(i) /\ call[i].guarded /\ state = "starting"
        /\ call[j].op = "start" /\ call[j].pc \in {"poll", "sleep"}
        /\ call[j].spawned # Null

\* C2: a stop() that no start() overlaps ends with state Stopped and the
\* handle null, whether the child exited after the graceful signal, after
\* the forceful one, or never.
C2_StopLeavesStopped ==
    \A i \in Calls :
        StopDone(i) /\ ~call[i].overlap =>
            call[i].retState = "stopped" /\ call[i].retProc = Null

\* C2 witness: such a stop() gave up on a child that never exited.
C2_Witness ==
    \E i \in Calls :
        /\ StopDone(i) /\ ~call[i].overlap /\ call[i].how = "never"
        /\ child[call[i].proc].st = "alive"

\* The stop() of slot i, called from outside or awaited by a start(), has
\* taken the child over and has not returned yet.
Stopping(i) ==
    call[i].owned /\ call[i].pc \in {"kill1", "wait1", "kill2", "wait2"}

\* C3 (as claimed): the first signal leaves after state is Stopped, the
\* observers are told and the handle is cleared, and while the stop() is in
\* progress the state is never Running.
C3_NoRunningDuringStop ==
    \A i \in Calls :
        /\ call[i].sigOrder # "beforeStop"
        /\ Stopping(i) => state # "running"

\* C3, the part about the order inside stop(): the first signal leaves after
\* state is Stopped, the observers are told and the handle is cleared.
C3_SignalAfterStopped ==
    \A i \in Calls : call[i].owned /\ call[i].how # "threw" =>
        call[i].sigOrder = "afterStop"

\* C4 (as claimed): no stop() called from outside ends by throwing.
C4_StopNeverThrows ==
    \A i \in Calls : StopDone(i) => call[i].result # "threw"

\* C5: a start() that got past the guard with a directory configured and
\* whose first health probe succeeded returns true with state Running and
\* has spawned nothing; a handle that was null at the call is null at the
\* return, unless another call overlapped this one and spawned.
C5_AttachWithoutSpawn ==
    \A i \in Calls :
        StartDone(i) /\ call[i].attached =>
            /\ ~call[i].entryBusy /\ call[i].entryDir # ""
            /\ call[i].result = "true"
            /\ call[i].retState = "running"
            /\ call[i].spawned = Null
            /\ (call[i].entryProc = Null /\ ~call[i].overlap) =>
                    call[i].retProc = Null

\* C5 witness: a later start() alone, called with the handle null, attached
\* to a server that already answered.
C5_Witness ==
    \E i \in Calls :
        /\ StartDone(i) /\ call[i].attached /\ ~call[i].overlap
        /\ call[i].entryProc = Null /\ passed = 2
        /\ state = "running" /\ process = Null /\ lastError = NoError

\* C6 (as claimed): the spawn succeeded, no probe succeeded, the timeout ran
\* out and the child is still alive; then start() returns false with state
\* Error and the timeout message.
C6_TimeoutMessage ==
    \A i \in Calls :
        /\ StartDone(i) /\ call[i].timedOut /\ ~call[i].probeOk
        /\ call[i].spawned # Null /\ call[i].errSeen = "none"
        /\ call[i].how \in {"graceful", "forced", "never"}
        /\ child[call[i].spawned].st = "alive"
        => /\ call[i].result = "false"
           /\ call[i].retState = "error"
           /\ call[i].retError = ErrTimeout

\* C7 (as claimed): a start() whose child emitted a spawn error while it
\* was waiting returns false without calling stop(), and the last error is
\* the message of that error.
C7_SpawnErrorFails ==
    \A i \in Calls :
        StartDone(i) /\ call[i].errSeen # "none" =>
            /\ call[i].result = "false"
            /\ ~call[i].calledStop
            /\ call[i].retState = "error"
            /\ call[i].retError = IF call[i].errSeen = "ENOENT"
                                  THEN ErrEnoent ELSE ErrFailed

\* C8: a start() that gets past the guard and finds no project directory
\* returns false at once with state Error and the configuration message,
\* without a health probe and without a spawn.
C8_NoDirectoryFails ==
    \A i \in Calls :
        call[i].op = "start" /\ ~call[i].entryBusy /\ call[i].entryDir = "" =>
            /\ call[i].pc = "done"
            /\ call[i].result = "false"
            /\ call[i].retState = "error"
            /\ call[i].retError = ErrNoDir
            /\ ~call[i].probed
            /\ call[i].spawned = Null

\* C8 witness: such a call has returned and the manager is in Error.
C8_Witness ==
    \E i \in Calls :
        /\ StartDone(i) /\ ~call[i].entryBusy /\ call[i].entryDir = ""
        /\ state = "error" /\ lastError = ErrNoDir

\* ================================================ properties, updateContext
\* The call of slot i has returned and nothing came in between.
UpdDone(i) ==
    upd[i].op = "updateContext" /\ upd[i].pc = "done" /\ ~upd[i].overlap

\* C9 (as claimed): updateContext(S, empty) with a part tracked for S sends
\* one PATCH with ignored = true for that part and nothing else, and no part
\* is tracked when it returns; a second updateContext(S, empty) right after
\* it sends nothing.
C9_EmptyContextIgnoresOnce ==
    \A i \in Slots :
        /\ ClearsLive(upd[i]) =>
              /\ upd[i].reqs = <<PatchRequest(upd[i].entryPart, "", TRUE)>>
              /\ upd[i].retPart = JNull
        /\ ( /\ UpdDone(i) /\ upd[i].contextText = ""
             /\ prev.clearsLive /\ prev.sessionId = upd[i].sessionId )
           => upd[i].reqs = <<>>

\* C10: updateContext(S, A) with nothing tracked and then updateContext(S, B),
\* A and B non-empty, every remote call answered with the documented body:
\* the first call sent one POST for S and nothing else, the second one PATCH
\* and nothing else, to the part the POST's answer carried, with the text.
C10_SecondPushUpdatesInPlace ==
    \A i \in Slots :
        ( /\ UpdDone(i) /\ upd[i].allOk /\ upd[i].contextText # ""
          /\ prev.firstPush /\ prev.sessionId = upd[i].sessionId )
        => /\ prev.reqs = <<PostRequest(prev.sessionId, prev.contextText)>>
           /\ prev.posted # Null
           /\ Len(upd[i].reqs) = 1
           /\ upd[i].reqs[1].method = "PATCH"
           /\ upd[i].reqs[1].id = prev.posted
           /\ upd[i].reqs[1].sessionID = upd[i].sessionId
           /\ upd[i].reqs[1].text = upd[i].contextText
           /\ ~upd[i].reqs[1].ignored

\* C10 witness: the pair of calls (S, A), (S, B) has returned and the part of
\* the first call is the tracked one.
C10_Witness ==
    \E i \in Slots :
        /\ UpdDone(i) /\ upd[i].allOk /\ upd[i].contextText = "B"
        /\ prev.firstPush /\ prev.sessionId = upd[i].sessionId
        /\ prev.contextText = "A"
        /\ Truthy(lastPart) /\ Get(lastPart, "id") = prev.posted
        /\ remote[prev.posted].st = "live"

\* c is a returned updateContext(S2, X), X non-empty, called with another
\* session S1 tracked.
ChangesSession(c) ==
    /\ c.op = "updateContext" /\ c.pc = "done" /\ ~c.overlap /\ c.contextText # ""
    /\ c.entryTracked \notin {NoSession, c.sessionId}

\* C11: updateContext(S2, X), X non-empty, called when the calls before it
\* used another session S1 (S1 is the tracked session, or the call that
\* returned last was an undisturbed call for S1): it sends one POST for S2
\* and nothing else, so no PATCH at all and none that names S1 or the part
\* that was tracked.
C11_SessionChangePostsFresh ==
    \A i \in Slots :
        ( \/ ChangesSession(upd[i])
          \/ /\ UpdDone(i) /\ upd[i].contextText # ""
             /\ prev.returned /\ ~prev.overlap
             /\ prev.sessionId # upd[i].sessionId )
        => /\ upd[i].reqs = <<PostRequest(upd[i].sessionId, upd[i].contextText)>>
           /\ \A k \in 1..Len(upd[i].reqs) :
                 /\ upd[i].reqs[k].sessionID = upd[i].sessionId
                 /\ upd[i].reqs[k].method # "PATCH"

\* C11 witness: such a call returned, and a part of S1 was tracked when it
\* was called.
C11_Witness ==
    \E i \in Slots :
        /\ ChangesSession(upd[i]) /\ Truthy(upd[i].entryPart)
        /\ Get(upd[i].entryPart, "sessionID") = upd[i].entryTracked
        /\ prev.returned /\ prev.sessionId = upd[i].entryTracked
        /\ trackedSessionId = upd[i].sessionId

\* c is a returned updateContext(S, text), text non-empty, that found a part
\* tracked and whose in-place update of it failed.
UpdateFailed(c) ==
    /\ c.op = "updateContext" /\ c.pc = "done" /\ ~c.overlap /\ c.contextText # ""
    /\ Truthy(c.entryPart) /\ c.entryTracked \in {NoSession, c.sessionId}
    /\ Len(c.resps) > 0 /\ c.resps[1] = "fail"

\* C12: such a call sent, after the failed update, one PATCH with ignored =
\* true to the stale part and then the POST a call without a tracked part
\* sends, and nothing else; when the POST's answer carries the new message,
\* the tracked part at the return is the first part of that message and not
\* the stale one.
C12_FailedUpdateFallsBack ==
    \A i \in Slots :
        UpdateFailed(upd[i]) =>
            /\ upd[i].reqs =
                 << PatchRequest(upd[i].entryPart, upd[i].contextText,
                                 Get(upd[i].entryPart, "ignored")),
                    PatchRequest(upd[i].entryPart, "", TRUE),
                    PostRequest(upd[i].sessionId, upd[i].contextText) >>
            /\ upd[i].posted # Null =>
                  /\ upd[i].retPart = Part(upd[i].posted, upd[i].sessionId, FALSE)
                  /\ Get(upd[i].retPart, "id") # Get(upd[i].entryPart, "id")

\* C12 witness: the update failed, the tombstone PATCH failed as well, the
\* creation succeeded and its part is the tracked one.
C12_Witness ==
    \E i \in Slots :
        /\ UpdateFailed(upd[i]) /\ upd[i].resps = <<"fail", "fail", "ok">>
        /\ Truthy(lastPart) /\ Get(lastPart, "id") = upd[i].posted
        /\ upd[i].posted # Get(upd[i].entryPart, "id")

\* C13: no updateContext and no createSession ends by throwing, whatever
\* the transport did; a createSession whose request failed (rejected fetch,
\* non-2xx status, empty or non-JSON body) or was answered with a body
\* without a session id returns null, and an updateContext whose requests
\* all failed returns normally with no answer taken for a part.
C13_ClientNeverThrows ==
    \A i \in Slots :
        upd[i].pc = "done" =>
            /\ upd[i].result # "threw"
            /\ upd[i].op = "createSession" =>
                  /\ upd[i].result \in Sessions \cup {NoSession}
                  /\ upd[i].resps # <<"ok">> => upd[i].result = NoSession
            /\ upd[i].op = "updateContext" =>
                  /\ upd[i].result = "void"
                  /\ ( /\ ~upd[i].overlap
                       /\ \A k \in 1..Len(upd[i].resps) : upd[i].resps[k] = "fail" )
                     => upd[i].retPart \in {JNull, upd[i].entryPart}

\* C13 witness: an updateContext returned after a rejected fetch and an
\* answer of another shape.
C13_Witness ==
    \E i \in Slots :
        /\ upd[i].op = "updateContext" /\ upd[i].pc = "done"
        /\ upd[i].caught /\ upd[i].result = "void"
        /\ \E k \in 1..Len(upd[i].resps) : upd[i].resps[k] = "odd"

\* The parts of session sid the client created that are not ignored.
LiveParts(sid) ==
    {k \in PartIds : remote[k].st = "live" /\ remote[k].sessionID = sid}

\* No updateContext call is in progress.
BetweenCalls ==
    \A i \in Slots : upd[i].op = "updateContext" => upd[i].pc = "done"

\* C14: whenever no updateContext call is in progress and tracking was never
\* reset from outside, so after any sequence of non-overlapping updateContext
\* calls, with any session ids, any texts and any answers, the tracked
\* session holds at most one part of the client that is not ignored.
C14_AtMostOneLivePart ==
    (BetweenCalls /\ resets = "none" /\ trackedSessionId # NoSession)
        => Cardinality(LiveParts(trackedSessionId)) <= 1

\* ========================================================= properties, getUrl
\* C16: getUrl() is a function of (hostname, port, project directory), and a
\* step that changes its value is an updateSettings or an
\* updateProjectDirectory: start(), stop(), a child's exit and a spawn error,
\* at each of their steps, leave it as it was.
C16_GetUrlFrame ==
    [][ /\ getUrl' # getUrl => UpdateSettings \/ UpdateProjectDirectory
        /\ \A s \in Settings, d \in Directories :
              (settings = s /\ projectDirectory = d) =>
                 getUrl = "http://" \o s.hostname \o ":" \o ToString(s.port)
                                    \o "/" \o btoa(d) ]_vars

\* C16 witness: a start() returned true and the server runs, after the
\* settings were updated, a child having been spawned and one having exited.
C16_Witness ==
    /\ \E i \in Calls : StartDone(i) /\ call[i].result = "true"
    /\ state = "running"
    /\ settings # DefaultSettings
    /\ \E c \in Children : child[c].st = "exited"
    /\ \E c \in Children : child[c].st = "alive"

\* =================================================== properties, session URLs
\* C15: resolveSessionId(getSessionUrl(id)) is id, for every non-empty id and
\* every base URL the client was given.
C15_RoundTrip ==
    resolved.asked => resolved.id = resolved.of

\* ================================================ properties, state machine
\* C17: every setState call that changes the state makes one of the
\* documented transitions: Stopped->Starting, Starting->Running,
\* Running->Stopped, Starting->Error, Error->Starting.
C17_DocumentedTransitions ==
    LET Documented ==
            {<<"stopped", "starting">>, <<"starting", "running">>,
             <<"running", "stopped">>, <<"starting", "error">>,
             <<"error", "starting">>}
    IN \A k \in 1..Len(notified) :
           notified[k].from # notified[k].to
               => <<notified[k].from, notified[k].to>> \in Documented

\* C18: when the handle is null the state is Stopped or Error.
C18_NoHandleMeansAtRest ==
    process = Null => state \in {"stopped", "error"}

\* C19: lastError is set only while the state is Error: in every state, and
\* at every notification of the observers, the one of Starting by a new
\* start attempt among them.
C19_LastErrorOnlyInError ==
    /\ lastError # NoError => state = "error"
    /\ \A k \in 1..Len(notified) :
          notified[k].lastError # NoError => notified[k].to = "error"

\* ================================================== properties, tracked pair
\* C20: as long as tracking was not reset from outside during an
\* updateContext call, in every state, between calls and at every await of a
\* call, a part that is tracked is a part of the tracked session; so a call
\* for another session has cleared lastPart by its first await.
C20_TrackedPartOfTrackedSession ==
    resets # "during" =>
        /\ lastPart.kind = "part" => lastPart.sessionID = trackedSessionId
        /\ \A i \in Slots :
              ( /\ upd[i].op = "updateContext" /\ upd[i].pc # "done"
                /\ upd[i].entryTracked \notin {NoSession, upd[i].sessionId}
                /\ ~upd[i].overlap
                /\ upd[i].resps = <<>> )
              => lastPart = JNull /\ trackedSessionId = upd[i].sessionId

\* C20 witness: a call for S2 waits for its first answer; S1 and a part of
\* S1 were tracked when it was called.
C20_Witness ==
    \E i \in Slots :
        /\ upd[i].op = "updateContext" /\ upd[i].pc = "post"
        /\ upd[i].resps = <<>> /\ resets = "none"
        /\ upd[i].entryTracked \notin {NoSession, upd[i].sessionId}
        /\ upd[i].entryPart.kind = "part"
        /\ upd[i].entryPart.sessionID = upd[i].entryTracked
        /\ lastPart = JNull /\ trackedSessionId = upd[i].sessionId

\* ================================================= properties, failed pushes
\* c is a returned updateContext call whose push failed: the ignore PATCH of
\* an empty context failed, or the in-place update failed and so did the POST
\* of the replacement message.
PushFailed(c) ==
    /\ c.op = "updateContext" /\ c.pc = "done" /\ ~c.overlap
    /\ Len(c.resps) > 0
    /\ c.entryPart.kind = "part"
    /\ \/ c.contextText = "" /\ c.resps = <<"fail">>
       \/ /\ c.contextText # ""
          /\ c.entryTracked \in {NoSession, c.sessionId}
          /\ c.resps[1] = "fail"
          /\ c.reqs[Len(c.reqs)].method = "POST"
          /\ c.resps[Len(c.resps)] = "fail"

\* C21: after an updateContext call whose push failed, no part is tracked:
\* lastPart is null at the return.
C21_FailedPushClearsTracking ==
    \A i \in Slots : PushFailed(upd[i]) => upd[i].retPart = JNull

\* ==================================================== properties, observers
\* C22: each setState call of a step runs every registered callback once, in
\* registration order, before the next setState call of the step, and hands
\* it the state just set; the states handed over chain up to the state the
\* manager is in, so each registered view holds the manager's state.
C22_NotifiedInOrder ==
    LET n == Len(stateChangeCallbacks)
    IN /\ Len(delivered) = Len(notified) * n
       /\ \A j \in 1..Len(notified), k \in 1..n :
             delivered[(j - 1) * n + k] =
                [observer |-> stateChangeCallbacks[k], state |-> notified[j].to]
       /\ \A j \in 1..(Len(notified) - 1) :
             notified[j + 1].from = notified[j].to
       /\ notified # <<>> => notified[Len(notified)].to = state
       /\ \A v \in Views :
             v \in Registered(stateChangeCallbacks) => currentState[v] = state

\* C22 witness: a step called setState twice with the plugin's callback and
\* two views registered, the second view first.
C22_Witness ==
    /\ Len(notified) = 2
    /\ Len(stateChangeCallbacks) = 3
    /\ stateChangeCallbacks[2] > stateChangeCallbacks[3]
    /\ Len(delivered) = 6

\* ========================================== properties, coordinating layer
\* C23: at most one scheduled push is pending, the one contextRefreshTimer
\* names, and after a schedule at most one timer fires before the next
\* schedule: a burst of schedules ends in one timer-fired push.
C23_OnePendingTimer ==
    /\ Cardinality(timers) <= 1
    /\ timers \subseteq {contextRefreshTimer}
    /\ fired <= 1

\* C23 witness: after a burst of schedules without a timer firing in
\* between, one timer is pending, the last one scheduled.
C23_Witness ==
    /\ burst = 2 /\ timerSeq >= 2
    /\ timers = {timerSeq} /\ contextRefreshTimer = timerSeq

\* C24: at most one updateContext call of the coordinating layer is in
\* flight.
C24_OnePushInFlight ==
    InFlightPushes <= 1

\* ======================================================= properties, unwrap
\* C25: unwrap gives the payload for every shape of response: the payload
\* itself for a direct payload, for { data: payload } and for
\* { message: payload }, and null for an absent response.
C25_UnwrapNormalizes ==
    unwrapCall.shape # "none" => unwrapped = unwrapCall.payload

\* ============================================ properties, start's failures
\* C26: a start() alone whose polling gave up without a spawn error and that
\* went through stop() reports the most specific reason: the exit code when
\* the child exited with a non-zero code while Starting; otherwise "exited
\* before server became ready" when the child's exit had cleared the handle
\* before polling gave up; and the timeout message exactly when the timeout
\* ran out with the child's exit not yet seen (stop() found the handle).
C26_ReasonPriority ==
    \A i \in Calls :
        /\ StartDone(i) /\ ~call[i].overlap /\ call[i].calledStop
        /\ call[i].errSeen = "none" /\ call[i].result = "false"
        => LET alive == /\ call[i].timedOut
                        /\ call[i].how \in {"graceful", "forced", "never"}
           IN /\ earlyExitCode # Null => call[i].retError = ErrExitCode
              /\ earlyExitCode = Null /\ call[i].how = "nochild"
                    => call[i].retError = ErrExitedEarly
              /\ (call[i].retError = ErrTimeout) = alive

\* C27: when the child the handle refers to exits while the state is
\* Running, the state becomes Stopped, the handle becomes null, the observers
\* are notified of Stopped and of nothing else, and lastError is unchanged.
C27_ExitWhileRunning ==
    [][\A c \in Children :
          /\ state = "running" /\ process = c
          /\ child[c].st # "exited" /\ child'[c].st = "exited"
          => /\ state' = "stopped"
             /\ process' = Null
             /\ lastError' = lastError
             /\ notified' = <<[from |-> "running", to |-> "stopped",
                               lastError |-> lastError]>>]_vars

\* C27 witness: the state after such an exit; no call is in progress or has
\* just returned, so the notification is the exit handler's.
C27_Witness ==
    /\ state = "stopped" /\ process = Null
    /\ notified = <<[from |-> "running", to |-> "stopped",
                     lastError |-> NoError]>>
    /\ \A i \in Calls : call[i].op = "none"
    /\ \E c \in Children : child[c].st = "exited"

\* ================================================= properties, stop's signals
\* C28: a stop() that found a child sends a forceful kill only as its second
\* signal, after the graceful one and a first wait in which the child did
\* not exit; when the child exits during the first wait the graceful signal
\* is the only one; after the second wait it returns with two signals sent
\* and no more.
C28_SignalOrder ==
    \A i \in Calls :
        StopDone(i) /\ call[i].owned /\ call[i].how # "threw"
        => /\ call[i].how = "graceful" => call[i].signals = <<"SIGTERM">>
           /\ call[i].how \in {"forced", "never"}
                 => call[i].signals = <<"SIGTERM", "SIGKILL">>

\* ============================================= properties, start's outcomes
\* C29: a start() alone whose own child has exited, or failed to spawn, by
\* the time it returns ends in state Error and returns false; it never ends
\* in Running.
C29_NoRunningAfterExit ==
    \A i \in Calls :
        /\ StartDone(i) /\ ~call[i].overlap /\ call[i].how # "threw"
        /\ call[i].spawned # Null
        /\ child[call[i].spawned].st \in {"exited", "errored"}
        => /\ call[i].result = "false"
           /\ call[i].retState = "error"

\* C30: a start() called in state Error is not a no-op.  Right after the
\* call went to its first await the state is Starting, lastError and the
\* recorded exit code are cleared, and the first health probe is out with
\* nothing spawned by the call; with no directory configured it has failed
\* again with the configuration message, as from Stopped.  And a start()
\* alone that passed the guard, saw no spawn error and returned true ended
\* in Running with no error message.
C30_RetryFromError ==
    /\ (notified # <<>> /\ notified[1].from = "error"
                        /\ notified[1].to = "starting")
         => IF Len(notified) = 1
            THEN /\ state = "starting"
                 /\ lastError = NoError
                 /\ earlyExitCode = Null
                 /\ \E i \in Calls :
                       /\ call[i].op = "start" /\ call[i].pc = "probe1"
                       /\ call[i].spawned = Null
            ELSE /\ notified[2].from = "starting" /\ notified[2].to = "error"
                 /\ state = "error" /\ lastError = ErrNoDir
                 /\ earlyExitCode = Null
                 /\ \E i \in Calls :
                       /\ StartDone(i) /\ call[i].result = "false"
                       /\ call[i].entryDir = "" /\ ~call[i].probed
    /\ \A i \in Calls :
          /\ StartDone(i) /\ ~call[i].overlap /\ ~call[i].guarded
          /\ call[i].errSeen = "none" /\ call[i].result = "true"
          => call[i].retState = "running" /\ call[i].retError = NoError

\* C30 witness: start() was called in state Error with an error message
\* set; the state is Starting, the message is gone and the probe is out.
C30_Witness ==
    /\ notified # <<>>
    /\ notified[1].from = "error" /\ notified[1].to = "starting"
    /\ notified[1].lastError # NoError
    /\ state = "starting" /\ lastError = NoError
    /\ \E i \in Calls : call[i].op = "start" /\ call[i].pc = "probe1"

\* =========================================== properties, overlapping calls
\* C31: the exit or error event of a child that is not the one the handle
\* refers to leaves the handle alone and does not demote a Running state to
\* Stopped.
C31_OnlyOwnedChildActs ==
    [][\A c \in Children :
          /\ child[c].st \notin {"exited", "errored"}
          /\ child'[c].st \in {"exited", "errored"}
          /\ process # c
          => /\ process' = process
             /\ state = "running" => state' # "stopped"]_vars

\* C32: stop() was called while the only start() that passed the guard was
\* in progress.  When that start() returns, the state is Stopped (it has set
\* neither Running nor Error after the stop()), and a child it spawned is not
\* alive with neither the handle nor the stop() referring to it.
C32_StopWinsOverStart ==
    \A i, j \in Calls :
        /\ StartDone(i) /\ ~call[i].guarded /\ passed = 1
        /\ call[j].op = "stop" /\ call[j].entryBusy /\ call[j].overlap
        => /\ call[i].retState = "stopped"
           /\ call[i].spawned # Null
                 => ~ /\ child[call[i].spawned].st = "alive"
                      /\ process # call[i].spawned
                      /\ call[j].proc # call[i].spawned

\* C33: a start() that returns true returns in state Running, and one that
\* returns false returns in state Error with an error message set; the calls
\* that return through the guard included.
C33_ResultMatchesState ==
    \A i \in Calls :
        StartDone(i) =>
            /\ call[i].result = "true" => call[i].retState = "running"
            /\ call[i].result = "false"
                  => call[i].retState = "error" /\ call[i].retError # NoError

\* ======================================== properties, tracking under resets
\* C34: with resetTracking allowed at any moment, also while an
\* updateContext call is suspended, a part that is tracked is always a part
\* of the tracked session, and every PATCH of a call for a part addresses a
\* part of the session the call was made for.
C34_TrackedPairUnderResets ==
    /\ lastPart.kind = "part" => lastPart.sessionID = trackedSessionId
    /\ \A i \in Slots :
          upd[i].op = "updateContext" =>
             \A k \in 1..Len(upd[i].reqs) :
                upd[i].reqs[k].method = "PATCH" /\ upd[i].reqs[k].id # Null
                   => upd[i].reqs[k].sessionID = upd[i].sessionId

\* ================================================== properties, push guards
\* C35: a step that starts a context push ends with context injection
\* enabled, the process state Running and a cached or displayed URL a session
\* id resolves from; these are read in the same synchronous run that calls
\* the client's updateContext.
C35_PushOnlyWhenReady ==
    [][InFlightPushes' > InFlightPushes
          => /\ injectWorkspaceContext'
             /\ state' = "running"
             /\ iframeUrl' # NoUrl
             /\ resolveSessionId(iframeUrl'.url) # NoId]_vars

\* C35 witness: the push of handleServerRunning is in flight; the server
\* went to Running with injection enabled and a session URL cached.
\* C36: a state change reaches every observer that was registered when the
\* delivery began and is still registered when it ends, once for each state
\* emitted, also when callbacks call disposers during the delivery; and the
\* disposers called take out the observers they were returned for and
\* nothing else, a second call of one changing nothing.
C36_DeliveryUnderDisposal ==
    [][notified' # <<>> =>
          LET gone == UNION {disposes[delivered'[k].observer] :
                                k \in 1..Len(delivered')}
          IN /\ \A o \in Registered(stateChangeCallbacks) \ gone :
                   \A j \in 1..Len(notified') :
                      Cardinality({k \in 1..Len(delivered') :
                                      delivered'[k] =
                                         [observer |-> o,
                                          state |-> notified'[j].to]}) = 1
             /\ stateChangeCallbacks'
                   = SelectSeq(stateChangeCallbacks,
                               LAMBDA o : o \notin gone)]_vars

\* C37: a restart by updateProjectDirectory that found the server Running
\* with an owned child ends with start() returning in Running, the handle
\* being a child this start() spawned, or in Error, never attached to a server
\* it did not spawn; and the exit of the old child, while the restart's
\* stop() awaits it, does not take the manager from Running to Stopped.
C37_RestartReplacesChild ==
    [][/\ \A i \in Calls :
             /\ call'[i].op = "start" /\ call'[i].pc = "done"
             /\ call'[i].restart \in Children
             => \/ call'[i].retState = "error" /\ call'[i].result = "false"
                \/ /\ call'[i].retState = "running"
                   /\ call'[i].result = "true"
                   /\ ~call'[i].attached
                   /\ call'[i].spawned # Null
                   /\ call'[i].retProc = call'[i].spawned
       /\ \A j \in Calls :
             /\ call[j].op = "stop" /\ InFlight(call[j])
             /\ call[j].restart \in Children
             /\ child[call[j].restart].st # "exited"
             /\ child'[call[j].restart].st = "exited"
             /\ state = "running"
             => state' # "stopped"]_vars

C35_Witness ==
    /\ pushing["running"] = 1
    /\ state = "running" /\ injectWorkspaceContext
    /\ resolveSessionId(iframeUrl.url) # NoId
    /\ \E i \in Calls : StartDone(i) /\ call[i].result = "true"
====
